---- MODULE Spec2Model ----
(***************************************************************************)
(* Junction tree construction from an elimination tree                     *)
(* (JunctionTree-inst.h): the pre-order and post-order visitors of         *)
(* ConstructorTraversalData and the JunctionTree constructor that drives   *)
(* them through a depth-first traversal of the elimination forest.         *)
(*                                                                         *)
(* Elimination-tree nodes are numbered 1..etSize; node n eliminates the    *)
(* variable Key(n).  A clique is named after the elimination-tree node     *)
(* whose pre-visit allocated it; clique 0 is the dummy node that gathers   *)
(* the roots.  A factor is named <<n, k>>: the k-th factor of node n (the  *)
(* shared pointer the cliques copy around); its keys are etFactors[n][k].  *)
(***************************************************************************)
EXTENDS Integers, Sequences, FiniteSets, TLC

\* Largest number of elimination-tree nodes of an input.
MaxNodes == 4
\* Number of factors of the input factor graph: those that involve no
\* eliminated variable are the elimination tree's remaining factors.
MaxFactors == 2

VARIABLES
  etSize,            \* number of nodes of the input elimination forest
  etParent,          \* etParent[n]: parent of node n, 0 for a root
  etFactors,         \* etFactors[n]: the factors of node n, each a set of keys
  etRemaining,       \* eliminationTree.remainingFactors()
  stack,             \* traversal stack of DepthFirstForest, top first
  data,              \* the live ConstructorTraversalData; data[0] is rootData
  jt,                \* the junction tree nodes allocated so far; jt[0] is the dummy node
  roots_,            \* Base::roots_
  remainingFactors_, \* Base::remainingFactors_
  pc,                \* "traverse" while DepthFirstForest runs, then "done"
  elimLog,           \* elimLog[n]: symbolicElimResult and factor count of n's post-visit
  mergeLog           \* mergeLog[n]: the children n's post-visit absorbed, in order

vars == <<etSize, etParent, etFactors, etRemaining, stack, data, jt, roots_,
          remainingFactors_, pc, elimLog, mergeLog>>

----------------------------------------------------------------------------
(* The input: an elimination forest *)

\* ETREE_NODE::key
Key(n) == n

\* Forest shapes.  Nodes are numbered in the order the depth-first traversal
\* post-visits them, so a parent follows its children and every subtree is a
\* run of consecutive numbers ending at its root; siblings are in input order.
ParentMaps(n) ==
  {p \in [1..n -> 0..n] :
     \A i \in 1..n :
       \/ p[i] = 0
       \/ /\ p[i] > i
          /\ \A j \in (i + 1)..(p[i] - 1) : p[j] # 0 /\ p[j] <= p[i]}

\* The nodes above node i.
RECURSIVE Ancestors(_, _)
Ancestors(i, p) == IF p[i] = 0 THEN {} ELSE {p[i]} \cup Ancestors(p[i], p)

\* Key sets of a factor attached to node i: the factor involves Key(i), the
\* first of its variables to be eliminated, and variables of nodes above i.
KeySets(i, p) == {{Key(i)} \cup {Key(j) : j \in S} : S \in SUBSET Ancestors(i, p)}

SeqsUpTo(S, b) == UNION {[1..k -> S] : k \in 0..b}

\* Factor lists for nodes i..n holding at most b factors in all.
RECURSIVE Assignments(_, _, _)
Assignments(i, p, b) ==
  IF i > Len(p) THEN {<< >>}
  ELSE UNION {{<<L>> \o rest : rest \in Assignments(i + 1, p, b - Len(L))} :
                L \in SeqsUpTo(KeySets(i, p), b)}

RECURSIVE SumLen(_)
SumLen(ss) == IF ss = << >> THEN 0 ELSE Len(Head(ss)) + SumLen(Tail(ss))

\* Children of elimination-tree node p in order (p = 0: the roots).
RECURSIVE ChildrenFrom(_, _, _, _)
ChildrenFrom(p, par, i, n) ==
  IF i > n THEN << >>
  ELSE (IF par[i] = p THEN <<i>> ELSE << >>) \o ChildrenFrom(p, par, i + 1, n)

ETChildren(p) == ChildrenFrom(p, etParent, 1, etSize)

\* ETREE_NODE::factors as shared pointers
NodeFactors(n) == [k \in 1..Len(etFactors[n]) |-> <<n, k>>]

FactorKeys(f) == etFactors[f[1]][f[2]]

----------------------------------------------------------------------------
(* Sequence helpers *)

RECURSIVE Reverse(_)
Reverse(s) == IF s = << >> THEN << >> ELSE Append(Reverse(Tail(s)), Head(s))

\* vector::erase(begin() + idx), idx counted from 0
EraseAt(s, idx) ==
  [k \in 1..(Len(s) - 1) |-> IF k <= idx THEN s[k] ELSE s[k + 1]]

Range(s) == {s[k] : k \in 1..Len(s)}

Max(a, b) == IF a >= b THEN a ELSE b

----------------------------------------------------------------------------
(* Symbolic elimination *)

RECURSIVE AllKeys(_)
AllKeys(fs) == IF fs = << >> THEN {} ELSE Head(fs) \cup AllKeys(Tail(fs))

\* internal::EliminateSymbolic(factors, keys): the conditional on keys given
\* every other key of the factors, and the factor on those other keys.
EliminateSymbolic(fs, keys) ==
  LET parents == AllKeys(fs) \ Range(keys)
  IN  [conditional |-> [frontals |-> keys, parents |-> parents],
       factor      |-> parents]

\* SymbolicConditional::nrParents()
nrParents(c) == Cardinality(c.parents)

\* SymbolicConditional::size()
size(c) == Len(c.frontals) + Cardinality(c.parents)

----------------------------------------------------------------------------
(* Pre-order visitor *)

\* Node(key, factors): a clique on one frontal key holding the node's factors.
NewNode(key, factors) ==
  [orderedFrontalKeys |-> <<key>>, factors |-> factors,
   children |-> << >>, problemSize_ |-> 0]

\* Node(): the dummy node gathering the roots.
DummyNode ==
  [orderedFrontalKeys |-> << >>, factors |-> << >>,
   children |-> << >>, problemSize_ |-> 0]

\* ConstructorTraversalData(_parentData)
NewData == [childSymbolicConditionals |-> << >>, childSymbolicFactors |-> << >>]

\* Variant: the new clique replaces the parent's list of children.
LinkChildAssign(children, c) == <<c>>

\* parentData.myJTNode->children.push_back(myData.myJTNode)
LinkChild(children, c) == Append(children, c)

----------------------------------------------------------------------------
(* Post-order visitor *)

\* Variant: the factors passed up from the children are left out.
SymbolicFactorsOwnOnly(n, myData) ==
  [k \in 1..Len(etFactors[n]) |-> etFactors[n][k]]

\* symbolicFactors: the node's factors, then the factors passed up from children
SymbolicFactors(n, myData) ==
  [k \in 1..Len(etFactors[n]) |-> etFactors[n][k]] \o myData.childSymbolicFactors

\* What the post-visit stores in the parent's traversal data.
StoreInParent(parentData, elimResult) ==
  [childSymbolicConditionals |->
     Append(parentData.childSymbolicConditionals, elimResult.conditional),
   childSymbolicFactors |->
     Append(parentData.childSymbolicFactors, elimResult.factor)]

\* (int)(symbolicElimResult.first->size() * symbolicFactors.size())
InitialProblemSize(cond, nrFactors) == size(cond) * nrFactors

\* Variant: the frontal variables accumulated so far are not counted, every
\* child with one parent more than the node is merged.
ShouldMergeOneMore(myNrParents, myNrFrontals, childCond) ==
  myNrParents + 1 = nrParents(childCond)

\* Variant: a child is merged when it has as many parents as the node.
ShouldMergeSameParents(myNrParents, myNrFrontals, childCond) ==
  myNrParents = nrParents(childCond)

\* Check if we should merge the i^th child
ShouldMerge(myNrParents, myNrFrontals, childCond) ==
  myNrParents + myNrFrontals = nrParents(childCond)

\* Position of the i^th child in node->children once earlier merged children
\* have been removed from the list.
ChildIndex(i, nrMergedChildren) == i - nrMergedChildren

\* Variant: only the child's own key is taken over, not the keys the child
\* had absorbed.
MergeKeysOwnOnly(keys, childKeys) == Append(keys, childKeys[Len(childKeys)])

\* Variant: the child's keys are added in their order, not reversed.
MergeKeysForward(keys, childKeys) == keys \o childKeys

\* Keys are added in reverse order at the end (reversed back after the loop).
MergeKeys(keys, childKeys) == keys \o Reverse(childKeys)

\* Variant: the child's factors replace the clique's own.
MergeFactorsAssign(factors, childFactors) == childFactors

\* node->factors.insert(node->factors.end(), child.factors.begin(), child.factors.end())
MergeFactors(factors, childFactors) == factors \o childFactors

\* Variant: the child's children are inserted at the front of the list.
MergeChildrenFront(children, childChildren) == childChildren \o children

\* node->children.insert(node->children.end(), child.children.begin(), child.children.end())
MergeChildren(children, childChildren) == children \o childChildren

\* Variant: the child's problem size is added.
MergeProblemSizeSum(combinedProblemSize, childProblemSize) ==
  combinedProblemSize + childProblemSize

\* combinedProblemSize = std::max(combinedProblemSize, child.problemSize_)
MergeProblemSize(combinedProblemSize, childProblemSize) ==
  Max(combinedProblemSize, childProblemSize)

\* std::reverse(node->orderedFrontalKeys.begin(), node->orderedFrontalKeys.end())
ReverseKeys(keys) == Reverse(keys)

\* assert(node->children.size() == myData.childSymbolicConditionals.size())
AssertChildren(node, myData) ==
  Len(node.children) = Len(myData.childSymbolicConditionals)

\* Body of the if statement of the merge loop, for the i^th child.
MergeChild(st, i, nodes) ==
  LET idx   == ChildIndex(i, st.nrMergedChildren)
      cid   == st.children[idx + 1]
      child == nodes[cid]
  IN  [orderedFrontalKeys |-> MergeKeys(st.orderedFrontalKeys, child.orderedFrontalKeys),
       factors            |-> MergeFactors(st.factors, child.factors),
       children           |-> EraseAt(MergeChildren(st.children, child.children), idx),
       combinedProblemSize |-> MergeProblemSize(st.combinedProblemSize, child.problemSize_),
       myNrFrontals       |-> st.myNrFrontals + Len(child.orderedFrontalKeys),
       nrMergedChildren   |-> st.nrMergedChildren + 1,
       merged             |-> Append(st.merged, [i |-> i, clique |-> cid])]

\* for (size_t i = 0; i < myData.childSymbolicConditionals.size(); ++i)
RECURSIVE MergeLoop(_, _, _, _, _)
MergeLoop(st, i, conds, myNrParents, nodes) ==
  IF i >= Len(conds) THEN st
  ELSE MergeLoop(IF ShouldMerge(myNrParents, st.myNrFrontals, conds[i + 1])
                   THEN MergeChild(st, i, nodes) ELSE st,
                 i + 1, conds, myNrParents, nodes)

\* The node's clique after the merge loop, the final reverse and the
\* assignment of problemSize_, with the children it absorbed.
MergedNode(node, elimResult, nrFactors, conds, nodes) ==
  LET st0 == [orderedFrontalKeys |-> node.orderedFrontalKeys,
              factors |-> node.factors,
              children |-> node.children,
              combinedProblemSize |-> InitialProblemSize(elimResult.conditional, nrFactors),
              myNrFrontals |-> 1,
              nrMergedChildren |-> 0,
              merged |-> << >>]
      st  == MergeLoop(st0, 0, conds, nrParents(elimResult.conditional), nodes)
  IN  [node   |-> [orderedFrontalKeys |-> ReverseKeys(st.orderedFrontalKeys),
                   factors |-> st.factors,
                   children |-> st.children,
                   problemSize_ |-> st.combinedProblemSize],
       merged |-> st.merged]

----------------------------------------------------------------------------
(* The constructor: traversal and root assembly *)

StackEntries(ns) == [k \in 1..Len(ns) |-> [node |-> ns[k], expanded |-> FALSE]]

\* The traversal datum a node's visitors receive as parentData.
ParentOf(n) == etParent[n]

Init ==
  /\ etSize \in 0..MaxNodes
  /\ etParent \in ParentMaps(etSize)
  /\ etFactors \in Assignments(1, etParent, MaxFactors)
  /\ etRemaining = [k \in 1..(MaxFactors - SumLen(etFactors)) |-> {}]
  /\ stack = StackEntries(ETChildren(0))
  /\ data = (0 :> NewData)
  /\ jt = (0 :> DummyNode)
  /\ roots_ = << >>
  /\ remainingFactors_ = << >>
  /\ pc = "traverse"
  /\ elimLog = << >>
  /\ mergeLog = << >>

\* ConstructorTraversalVisitorPre on the node on top of the stack, and the
\* traversal pushing the node's children.
PreVisit ==
  /\ pc = "traverse"
  /\ stack # << >>
  /\ ~Head(stack).expanded
  /\ LET n == Head(stack).node
         p == ParentOf(n)
     IN  /\ data' = (n :> NewData) @@ data
         /\ jt' = (n :> NewNode(Key(n), NodeFactors(n))) @@
                  [jt EXCEPT ![p].children = LinkChild(@, n)]
         /\ stack' = StackEntries(ETChildren(n)) \o
                     <<[node |-> n, expanded |-> TRUE]>> \o Tail(stack)
  /\ UNCHANGED <<etSize, etParent, etFactors, etRemaining, roots_,
                 remainingFactors_, pc, elimLog, mergeLog>>

\* ConstructorTraversalVisitorPostAlg2 on the node on top of the stack, whose
\* children have all been visited; the traversal then discards its data.  A
\* failed assertion aborts the construction.  An absorbed clique keeps its
\* record in jt: no list of children holds it any more, so it is out of reach.
PostVisit ==
  /\ pc = "traverse"
  /\ stack # << >>
  /\ Head(stack).expanded
  /\ LET n          == Head(stack).node
         p          == ParentOf(n)
         myData     == data[n]
         symFactors == SymbolicFactors(n, myData)
         elimResult == EliminateSymbolic(symFactors, <<Key(n)>>)
         res        == MergedNode(jt[n], elimResult, Len(symFactors),
                                  myData.childSymbolicConditionals, jt)
     IN  /\ AssertChildren(jt[n], myData)
         /\ data' = [d \in DOMAIN data \ {n} |->
                       IF d = p THEN StoreInParent(data[p], elimResult) ELSE data[d]]
         /\ jt' = [jt EXCEPT ![n] = res.node]
         /\ elimLog' = (n :> [conditional |-> elimResult.conditional,
                              nrFactors |-> Len(symFactors)]) @@ elimLog
         /\ mergeLog' = (n :> res.merged) @@ mergeLog
         /\ stack' = Tail(stack)
  /\ UNCHANGED <<etSize, etParent, etFactors, etRemaining, roots_,
                 remainingFactors_, pc>>

\* After the traversal: assign the roots from the dummy node and transfer
\* the remaining factors.
AssignRoots ==
  /\ pc = "traverse"
  /\ stack = << >>
  /\ roots_' = jt[0].children
  /\ remainingFactors_' = etRemaining
  /\ pc' = "done"
  /\ UNCHANGED <<etSize, etParent, etFactors, etRemaining, stack, data, jt,
                 elimLog, mergeLog>>

Next == PreVisit \/ PostVisit \/ AssignRoots

Spec == Init /\ [][Next]_vars

----------------------------------------------------------------------------
(* The output junction tree and the input it is compared with *)

\* The cliques under the cliques cs, each followed by its descendants.
RECURSIVE CliquesUnder(_)
CliquesUnder(cs) ==
  IF cs = << >> THEN << >>
  ELSE <<Head(cs)>> \o CliquesUnder(jt[Head(cs)].children) \o CliquesUnder(Tail(cs))

\* The cliques reachable from the output roots.
OutCliques == CliquesUnder(roots_)

RECURSIVE Flatten(_)
Flatten(ss) == IF ss = << >> THEN << >> ELSE Head(ss) \o Flatten(Tail(ss))

Count(s, x) == Cardinality({k \in 1..Len(s) : s[k] = x})

OutFrontalKeys ==
  Flatten([k \in 1..Len(OutCliques) |-> jt[OutCliques[k]].orderedFrontalKeys])

OutFactors ==
  Flatten([k \in 1..Len(OutCliques) |-> jt[OutCliques[k]].factors])

ETKeys == [n \in 1..etSize |-> Key(n)]

ETFactors == Flatten([n \in 1..etSize |-> NodeFactors(n)])

\* The clique P whose list of children holds clique c.
ParentCliques(c) ==
  {P \in Range(OutCliques) : c \in Range(jt[P].children)}

\* Post-visited nodes.
Visited == DOMAIN mergeLog

\* The cliques a node's post-visit absorbed, in the order it absorbed them.
Absorbed(n) == [k \in 1..Len(mergeLog[n]) |-> mergeLog[n][k].clique]

\* Each factor sits on the deepest node whose key it involves: the nodes of
\* its other keys are above that node.
WellFormed ==
  \A n \in 1..etSize : \A k \in 1..Len(etFactors[n]) :
    /\ Key(n) \in etFactors[n][k]
    /\ \A m \in 1..etSize :
         (Key(m) \in etFactors[n][k] /\ m # n) => m \in Ancestors(n, etParent)

----------------------------------------------------------------------------
(* C1 *)

\* C1: after the constructor returns, the keys found in orderedFrontalKeys
\* over the cliques reachable from the roots are, with multiplicity, the keys
\* of the elimination-tree nodes: none is lost, none is duplicated.
C1_FrontalKeysPreserved ==
  pc = "done" =>
    \A k \in Range(OutFrontalKeys) \cup Range(ETKeys) :
      Count(OutFrontalKeys, k) = Count(ETKeys, k)

\* A finished construction in which a clique that had absorbed a child was
\* absorbed in turn, next to a clique that stayed a child.
C1_Witness ==
  /\ pc = "done"
  /\ \E c \in Range(OutCliques) :
       /\ Len(jt[c].orderedFrontalKeys) >= 3
       /\ jt[c].children # << >>

\* C2: after construction every factor of an elimination-tree node is in the
\* factors of exactly one reachable clique (and nothing else is), and that
\* clique's orderedFrontalKeys hold the key of the node the factor was on.
C2_FactorsPreserved ==
  pc = "done" =>
    /\ \A f \in Range(OutFactors) \cup Range(ETFactors) :
         Count(OutFactors, f) = 1 /\ Count(ETFactors, f) = 1
    /\ \A c \in Range(OutCliques) : \A f \in Range(jt[c].factors) :
         Key(f[1]) \in Range(jt[c].orderedFrontalKeys)

\* A finished construction with a clique holding its own factor and a factor
\* moved in from an absorbed child.
C2_Witness ==
  /\ pc = "done"
  /\ \E c \in Range(OutCliques) :
       \E f, g \in Range(jt[c].factors) : f[1] = c /\ g[1] # c

----------------------------------------------------------------------------
(* C3 *)

\* Symbolic elimination of a clique's orderedFrontalKeys from its factors
\* together with the residual factors of its child cliques.
RECURSIVE CliqueElimination(_)
CliqueElimination(c) ==
  LET own == [k \in 1..Len(jt[c].factors) |-> FactorKeys(jt[c].factors[k])]
      res == [k \in 1..Len(jt[c].children) |->
                CliqueElimination(jt[c].children[k]).factor]
  IN  EliminateSymbolic(own \o res, jt[c].orderedFrontalKeys)

\* The parents of the conditional recorded when the node of clique c was
\* eliminated during construction.
RecordedParents(c) == elimLog[c].conditional.parents

\* C3: for a well-formed elimination tree, eliminating a clique's frontal keys
\* from its factors and its child cliques' residuals gives the parent set
\* recorded for it during construction, and for a clique C with parent clique
\* P that set lies within P's frontal keys and P's parent keys.
C3_SeparatorInParent ==
  (pc = "done" /\ WellFormed) =>
    \A C \in Range(OutCliques) :
      /\ CliqueElimination(C).conditional.parents = RecordedParents(C)
      /\ \A P \in ParentCliques(C) :
           CliqueElimination(C).conditional.parents \subseteq
             Range(jt[P].orderedFrontalKeys) \cup RecordedParents(P)

\* A finished construction with a child clique whose separator holds a key
\* that is not a frontal key of its parent clique, so that the parent keys of
\* the parent clique are needed, below a root clique that absorbed a child.
C3_Witness ==
  /\ pc = "done"
  /\ WellFormed
  /\ \E C \in Range(OutCliques) : \E P \in ParentCliques(C) :
       /\ ~(CliqueElimination(C).conditional.parents \subseteq
              Range(jt[P].orderedFrontalKeys))
       /\ \E R \in ParentCliques(P) : Len(jt[R].orderedFrontalKeys) >= 2

----------------------------------------------------------------------------
(* C4 *)

\* The orderedFrontalKeys of the cliques a post-visit absorbed, the clique
\* absorbed last first.
RECURSIVE AbsorbedKeys(_)
AbsorbedKeys(cs) ==
  IF cs = << >> THEN << >>
  ELSE AbsorbedKeys(Tail(cs)) \o jt[Head(cs)].orderedFrontalKeys

\* C4 as stated: the first of a clique's orderedFrontalKeys is the key of the
\* node the clique was created for, and the keys of absorbed subtrees follow.
C4_KeyFirst ==
  pc = "done" =>
    \A n \in Range(OutCliques) :
      /\ jt[n].orderedFrontalKeys[1] = Key(n)
      /\ Len(jt[n].orderedFrontalKeys) = 1 + Len(AbsorbedKeys(Absorbed(n)))

\* C4, amended: the last of a clique's orderedFrontalKeys is the key of the
\* node the clique was created for; the keys of each absorbed clique come
\* before it, in the order they have in that clique.
C4_KeyLast ==
  \A n \in Visited :
    jt[n].orderedFrontalKeys = Append(AbsorbedKeys(Absorbed(n)), Key(n))

\* A clique that absorbed a clique that had itself absorbed a child.
C4_Witness ==
  \E n \in Visited :
    \E k \in 1..Len(Absorbed(n)) : Absorbed(Absorbed(n)[k]) # << >>

----------------------------------------------------------------------------
(* C5 *)

\* The number of parents of the conditional of node n's own elimination.
NrParentsOf(n) == nrParents(elimLog[n].conditional)

\* The Y-shaped tree: leaves 1 and 2 under root 3, with factors {1,3} on
\* node 1 and {2,3} on node 2, none on the root.
IsYShape ==
  /\ etSize = 3
  /\ etParent = <<3, 3, 0>>
  /\ etFactors = <<<<{Key(1), Key(3)}>>, <<{Key(2), Key(3)}>>, << >>>>

\* C5: a post-visit merges every child whose conditional has exactly one more
\* parent than the node's own; for the Y-shaped tree the result is one clique
\* on the three keys holding both factors, with no child cliques.
C5_EveryChildMerged ==
  /\ \A n \in Visited : \A k \in 1..Len(ETChildren(n)) :
       NrParentsOf(ETChildren(n)[k]) = NrParentsOf(n) + 1
         => ETChildren(n)[k] \in Range(Absorbed(n))
  /\ (pc = "done" /\ IsYShape) =>
       /\ roots_ = <<3>>
       /\ Range(jt[3].orderedFrontalKeys) = {Key(1), Key(2), Key(3)}
       /\ jt[3].factors = <<<<1, 1>>, <<2, 1>>>>
       /\ jt[3].children = << >>

----------------------------------------------------------------------------
(* C6 *)

\* The chain 3 -> 2 -> 1: leaf 1 with factor {1,2}, node 2 with factor {2,3},
\* root 3 with no factor.
IsChain ==
  /\ etSize = 3
  /\ etParent = <<2, 3, 0>>
  /\ etFactors = <<<<{Key(1), Key(2)}>>, <<{Key(2), Key(3)}>>, << >>>>

\* C6 as stated: the chain gives one root clique with orderedFrontalKeys
\* [3,2,1] that holds every factor and has no child cliques.
C6_ChainOneClique ==
  (pc = "done" /\ IsChain) =>
    /\ roots_ = <<3>>
    /\ jt[3].orderedFrontalKeys = <<Key(3), Key(2), Key(1)>>
    /\ Range(jt[3].factors) = Range(ETFactors)
    /\ jt[3].children = << >>

\* C6, amended: the chain gives one root clique with orderedFrontalKeys [2,3]
\* holding the factor {2,3}, with one child clique, on key 1, holding the
\* factor {1,2} and having no children.
C6_ChainTwoCliques ==
  (pc = "done" /\ IsChain) =>
    /\ roots_ = <<3>>
    /\ jt[3].orderedFrontalKeys = <<Key(2), Key(3)>>
    /\ jt[3].factors = <<<<2, 1>>>>
    /\ jt[3].children = <<1>>
    /\ jt[1].orderedFrontalKeys = <<Key(1)>>
    /\ jt[1].factors = <<<<1, 1>>>>
    /\ jt[1].children = << >>

\* The construction from the chain has finished.
C6_Witness == pc = "done" /\ IsChain

----------------------------------------------------------------------------
(* C7 *)

\* The parents of the conditional of node n, from the input alone: the keys
\* of the node's factors and of its children's residuals, less its own key.
RECURSIVE TreeParents(_)
TreeParents(n) ==
  (UNION {etFactors[n][k] : k \in 1..Len(etFactors[n])} \cup
   UNION {TreeParents(ETChildren(n)[k]) : k \in 1..Len(ETChildren(n))})
  \ {Key(n)}

\* Size of node n's conditional times the number of factors it eliminates.
FirstEstimate(n) ==
  (1 + Cardinality(TreeParents(n))) * (Len(etFactors[n]) + Len(ETChildren(n)))

\* The largest element of a non-empty set of integers.
Largest(S) == CHOOSE x \in S : \A y \in S : y <= x

\* C7: the problemSize of the clique created for node n is the largest of
\* the size of n's conditional times the number of factors n eliminates (its
\* own and one residual per child), and the problemSize of every clique its
\* post-visit absorbed; children that were not absorbed do not count.
C7_ProblemSize ==
  \A n \in Visited :
    jt[n].problemSize_ =
      Largest({FirstEstimate(n)} \cup
              {jt[c].problemSize_ : c \in Range(Absorbed(n))})

\* A clique that absorbed a child of larger problemSize than its own first
\* estimate, and kept a child of larger problemSize still.
C7_Witness ==
  \E n \in Visited :
    /\ \E c \in Range(Absorbed(n)) : jt[c].problemSize_ > FirstEstimate(n)
    /\ \E d \in Range(jt[n].children) : jt[d].problemSize_ > jt[n].problemSize_

----------------------------------------------------------------------------
(* C8 *)

\* The children of node n that its post-visit did not absorb, in order.
Surviving(n) == SelectSeq(ETChildren(n), LAMBDA c : c \notin Range(Absorbed(n)))

\* The children of the cliques cs, list after list.
ChildrenOf(cs) == Flatten([k \in 1..Len(cs) |-> jt[cs[k]].children])

\* C8: the clique absorbed at index i of the merge loop is the clique created
\* for the node's i-th child; after the loop the clique's children are the
\* cliques of the children not absorbed, in their order, followed by the
\* children of the absorbed cliques.
C8_MergeIndex ==
  \A n \in Visited :
    /\ \A k \in 1..Len(mergeLog[n]) :
         mergeLog[n][k].clique = ETChildren(n)[mergeLog[n][k].i + 1]
    /\ jt[n].children = Surviving(n) \o ChildrenOf(Absorbed(n))

\* A post-visit that absorbed a child other than its first, leaving the
\* clique with a child from before the absorbed one and a child after it or
\* taken over from it.
C8_Witness ==
  \E n \in Visited :
    /\ \E k \in 1..Len(mergeLog[n]) : mergeLog[n][k].i >= 1
    /\ Len(jt[n].children) >= 2

----------------------------------------------------------------------------
(* C9 *)

\* C9: whenever the traversal is about to post-visit a node, the assertion at
\* the entry of the merge loop holds for it.
C9_AssertionHolds ==
  (pc = "traverse" /\ stack # << >> /\ Head(stack).expanded) =>
    AssertChildren(jt[Head(stack).node], data[Head(stack).node])

\* A node about to be post-visited that has two children, one of which
\* absorbed a child of its own.
C9_Witness ==
  /\ pc = "traverse" /\ stack # << >> /\ Head(stack).expanded
  /\ LET n == Head(stack).node
     IN  /\ Len(ETChildren(n)) >= 2
         /\ \E k \in 1..Len(ETChildren(n)) : Absorbed(ETChildren(n)[k]) # << >>

----------------------------------------------------------------------------
(* C10 *)

\* Positions (from 0) of the children of n whose conditional has exactly one
\* more parent than n's.
Candidates(n) ==
  {i \in 0..(Len(ETChildren(n)) - 1) :
     NrParentsOf(ETChildren(n)[i + 1]) = NrParentsOf(n) + 1}

====
